---- MODULE Spec2Model ----
(***************************************************************************)
(* Model of labs/topic1_heat/solutions/exercise2_nomanaged.cpp: the 2D     *)
(* heat equation on a 1D slab decomposition, one MPI process per slab.     *)
(*                                                                         *)
(* Numbers.  gamma = alpha*dt/dx^2 = 1/5.  Cell values are kept exactly as *)
(* integers in units of 1/One with One = 5^MaxNi, so that the update       *)
(* (1-4*gamma)*u + gamma*(sum of the four neighbours) = (u + sum) / 5 is   *)
(* an exact integer division for MaxNi time steps.  The energy term        *)
(* 0.5*u^2*dx^2 is kept in units of 1/(2*One^2*nx^2), i.e. as u*u.         *)
(*                                                                         *)
(* Builds.  assert() is compiled in or out (NDEBUG); both builds are       *)
(* modelled.  A failing assert aborts the process, and with it the MPI job.*)
(*                                                                         *)
(* MPI.  MPI_Send either returns once the message is buffered or only once *)
(* it has been received (syncSend); messages between two processes are     *)
(* matched by tag in send order.  MPI_Reduce returns on a non-root process *)
(* once its contribution is handed over, on the root once every            *)
(* contribution of that reduction has arrived.                             *)
(***************************************************************************)
EXTENDS Integers, Sequences, FiniteSets, TLC

\* Bounds of the model
MaxRanks == 3      \* number of processes is 1..MaxRanks
MaxNx == 3         \* the grids are nx by nx+1 with nx in 2..MaxNx: 2 by 3, 3 by 4
MaxNi == 4         \* iteration count ni is 0..MaxNi

\* Program constants
GammaDen == 5          \* gamma() = alpha*dt/(dx*dx) = 1/5
SizeofLong == 8
SizeofDouble == 8
TagToPrev == 0         \* tag of the row sent to rank-1
TagToNext == 1         \* tag of the row sent to rank+1
AssertionFailure == -1 \* what index yields when an assert aborts

RECURSIVE Pow(_, _)
Pow(b, e) == IF e = 0 THEN 1 ELSE b * Pow(b, e - 1)

\* the value 1.0 in the fixed-point units of the model
One == Pow(GammaDen, MaxNi)

VARIABLES
  NDEBUG,     \* build: TRUE when assert() is compiled out
  syncSend,   \* MPI_Send mode: TRUE = completes only when received, FALSE = buffered
  nx, ny, ni, nranks,        \* parameters
  pc,         \* pc[r]: position of process r in main
  it,         \* it[r]: loop counter of process r
  energy,     \* energy[r]: the local variable energy of the time loop
  buf,        \* buf[r]: the two allocations, [A |-> cells, B |-> cells]
  u_new, u_old,   \* u_new[r], u_old[r]: which allocation each pointer designates
  chan,       \* chan[<<src, dst>>]: point-to-point messages in flight, in send order
  sendPosted, \* sendPosted[r]: a synchronous MPI_Send of r has been posted and not yet completed
  redq,       \* redq[r]: contributions of r to MPI_Reduce not yet consumed by the root
  aborted,    \* an assert has fired: the job is aborted
  stderr,     \* the energy lines printed by rank 0
  req,        \* req[r]: the file write requests of r still pending
  file,       \* the set of completed file writes
  closed,     \* closed[r]: r has closed the file
  \* history variables (not program state)
  log,        \* log[r]: the steps r has completed in its current iteration
  parts,      \* parts[r]: the region results of r in its current iteration
  hist,       \* hist[r]: local energy of r per iteration, before reduction
  haloIt,     \* haloIt[r][h]: iteration stamp of the last row received into halo rows of allocation h
  readIt,     \* readIt[r]: stamps of the halo rows at the moment the adjacent seam row was evaluated
  wbuf,       \* wbuf[r]: the allocation written as "next" by the latest iteration
  sent,       \* sent[r]: the messages r has sent, in order
  recvd,      \* recvd[r]: the messages r has received, in order
  \* a single function of the program called on its own (KernelSpec)
  kMode,      \* which function is called: "stencil", "initialize", "region"; "none" in Spec
  kRank,      \* the rank of the calling process
  kCell,      \* the coordinate <<x, y>> stencil is called at
  kGrid,      \* the region stencil(grid) is called on
  kNew, kOld, \* the buffers passed as u_new and u_old
  kSnap,      \* the buffers before the first call and after each call
  kRet,       \* the values the calls have returned, in order
  kState      \* kState[i]: how far the computation of flat index i of the region has got

vars == <<NDEBUG, syncSend, nx, ny, ni, nranks, pc, it, energy, buf, u_new, u_old,
          chan, sendPosted, redq, aborted, stderr, req, file, closed,
          log, parts, hist, haloIt, readIt, wbuf, sent, recvd,
          kMode, kRank, kCell, kGrid, kNew, kOld, kSnap, kRet, kState>>

kernelVars == <<kMode, kRank, kCell, kGrid, kNew, kOld, kSnap, kRet, kState>>

Ranks == 0 .. nranks - 1

\* struct parameters, as held by process r
P(r) == [nx |-> nx, ny |-> ny, ni |-> ni, rank |-> r, nranks |-> nranks]

nit(p) == p.ni
nout(p) == 1000
nx_global(p) == p.nx * p.nranks
ny_global(p) == p.ny

\* the asserts of index
indexAssert(x, y, p) == x >= 0 /\ x < p.nx /\ y >= 0 /\ y < p.ny

\* Index into the memory using row-major order
index(x, y, p) ==
  IF NDEBUG \/ indexAssert(x, y, p) THEN x * p.ny + y ELSE AssertionFailure

\* number of cells of one allocation (long n in main)
AllocSize(p) == (p.nx + 2) * p.ny

\* std::vector<double>(n): n value-initialised cells
ZeroVector(n) == [i \in 0 .. n - 1 |-> 0]

\* initialize: fills u_new twice, never u_old
initialize(un, uo, n) ==
  [u_new |-> [i \in DOMAIN un |-> IF i < n THEN 0 ELSE un[i]], u_old |-> uo]

\* the coordinate pairs one stencil call passes to index
stencilCalls(x, y, p) ==
  (IF y = 1 THEN {<<x, y - 1>>} ELSE {})
  \cup (IF y = p.ny - 2 THEN {<<x, y + 1>>} ELSE {})
  \cup (IF p.rank = 0 /\ x = 1 THEN {<<x - 1, y>>} ELSE {})
  \cup (IF p.rank = p.nranks - 1 /\ x = p.nx THEN {<<x + 1, y>>} ELSE {})
  \cup {<<x, y>>, <<x + 1, y>>, <<x - 1, y>>, <<x, y + 1>>, <<x, y - 1>>}

\* TRUE when every index call of stencil(x, y) returns
stencilReturns(x, y, p) ==
  \A c \in stencilCalls(x, y, p) : index(c[1], c[2], p) # AssertionFailure

\* fault variant: the hot edge u(0, y) = 1 of rank 0 is not imposed
stencil_NoSource(un, uo, x, y, p) ==
  LET idx(a, b) == index(a, b, p)
      o1 == IF y = 1 THEN [uo EXCEPT ![idx(x, y - 1)] = 0] ELSE uo
      o2 == IF y = p.ny - 2 THEN [o1 EXCEPT ![idx(x, y + 1)] = 0] ELSE o1
      o4 == IF p.rank = p.nranks - 1 /\ x = p.nx
              THEN [o2 EXCEPT ![idx(x + 1, y)] = 0] ELSE o2
      v  == ((GammaDen - 4) * o4[idx(x, y)]
              + (o4[idx(x + 1, y)] + o4[idx(x - 1, y)] + o4[idx(x, y + 1)]
                 + o4[idx(x, y - 1)])) \div GammaDen
      n1 == [un EXCEPT ![idx(x, y)] = v]
  IN [u_new |-> n1, u_old |-> o4, e |-> n1[idx(x, y)] * n1[idx(x, y)]]

\* fault variant: the hot edge of rank 0 is added to the cell instead of assigned
stencil_Accumulate(un, uo, x, y, p) ==
  LET idx(a, b) == index(a, b, p)
      o1 == IF y = 1 THEN [uo EXCEPT ![idx(x, y - 1)] = 0] ELSE uo
      o2 == IF y = p.ny - 2 THEN [o1 EXCEPT ![idx(x, y + 1)] = 0] ELSE o1
      o3 == IF p.rank = 0 /\ x = 1 THEN [o2 EXCEPT ![idx(x - 1, y)] = @ + One] ELSE o2
      o4 == IF p.rank = p.nranks - 1 /\ x = p.nx
              THEN [o3 EXCEPT ![idx(x + 1, y)] = 0] ELSE o3
      v  == ((GammaDen - 4) * o4[idx(x, y)]
              + (o4[idx(x + 1, y)] + o4[idx(x - 1, y)] + o4[idx(x, y + 1)]
                 + o4[idx(x, y - 1)])) \div GammaDen
      n1 == [un EXCEPT ![idx(x, y)] = v]
  IN [u_new |-> n1, u_old |-> o4, e |-> n1[idx(x, y)] * n1[idx(x, y)]]

\* fault variant: the hot edge is imposed on row 0 of every rank
stencil_AnyRank(un, uo, x, y, p) ==
  LET idx(a, b) == index(a, b, p)
      o1 == IF y = 1 THEN [uo EXCEPT ![idx(x, y - 1)] = 0] ELSE uo
      o2 == IF y = p.ny - 2 THEN [o1 EXCEPT ![idx(x, y + 1)] = 0] ELSE o1
      o3 == IF x = 1 THEN [o2 EXCEPT ![idx(x - 1, y)] = One] ELSE o2
      o4 == IF p.rank = p.nranks - 1 /\ x = p.nx
              THEN [o3 EXCEPT ![idx(x + 1, y)] = 0] ELSE o3
      v  == ((GammaDen - 4) * o4[idx(x, y)]
              + (o4[idx(x + 1, y)] + o4[idx(x - 1, y)] + o4[idx(x, y + 1)]
                 + o4[idx(x, y - 1)])) \div GammaDen
      n1 == [un EXCEPT ![idx(x, y)] = v]
  IN [u_new |-> n1, u_old |-> o4, e |-> n1[idx(x, y)] * n1[idx(x, y)]]

\* Finite-difference stencil for one cell; e is the returned energy term
stencil(un, uo, x, y, p) ==
  LET idx(a, b) == index(a, b, p)
      o1 == IF y = 1 THEN [uo EXCEPT ![idx(x, y - 1)] = 0] ELSE uo
      o2 == IF y = p.ny - 2 THEN [o1 EXCEPT ![idx(x, y + 1)] = 0] ELSE o1
      o3 == IF p.rank = 0 /\ x = 1 THEN [o2 EXCEPT ![idx(x - 1, y)] = One] ELSE o2
      o4 == IF p.rank = p.nranks - 1 /\ x = p.nx
              THEN [o3 EXCEPT ![idx(x + 1, y)] = 0] ELSE o3
      v  == ((GammaDen - 4) * o4[idx(x, y)]
              + (o4[idx(x + 1, y)] + o4[idx(x - 1, y)] + o4[idx(x, y + 1)]
                 + o4[idx(x, y - 1)])) \div GammaDen
      n1 == [un EXCEPT ![idx(x, y)] = v]
  IN [u_new |-> n1, u_old |-> o4, e |-> n1[idx(x, y)] * n1[idx(x, y)]]

\* struct grid
Grid(xs, xe, ys, ye) == [x_start |-> xs, x_end |-> xe, y_start |-> ys, y_end |-> ye]

\* number of elements of a region
gridSize(g) == (g.x_end - g.x_start) * (g.y_end - g.y_start)

\* fault variant: the flat index is divided by the number of rows instead of columns
split_ByRows(i, g) ==
  LET dx == g.x_end - g.x_start
  IN <<(i \div dx) + g.x_start, (i % dx) + g.y_start>>

\* the lambda split of stencil(grid)
split(i, g) ==
  LET dy == g.y_end - g.y_start
  IN <<(i \div dy) + g.x_start, (i % dy) + g.y_start>>

\* the cells a region evaluation visits
gridCells(g) == {split(i, g) : i \in 0 .. gridSize(g) - 1}

\* TRUE when no stencil call of the region hits an assert
gridReturns(g, p) == \A c \in gridCells(g) : stencilReturns(c[1], c[2], p)

\* the transform_reduce of stencil(grid) over the flat indices i .. n-1
RECURSIVE transform_reduce(_, _, _, _, _, _)
transform_reduce(un, uo, g, p, i, acc) ==
  IF i >= gridSize(g) THEN [u_new |-> un, u_old |-> uo, e |-> acc]
  ELSE LET c == split(i, g)
           s == stencil(un, uo, c[1], c[2], p)
       IN transform_reduce(s.u_new, s.u_old, g, p, i + 1, acc + s.e)

\* stencil(u_new, u_old, grid, p)
stencil_grid(un, uo, g, p) == transform_reduce(un, uo, g, p, 0, 0)

\* fault variant: the interior region starts at row 1
internalGrid_FromRow1(p) == Grid(1, p.nx, 1, p.ny - 1)

internalGrid(p) == Grid(2, p.nx, 1, p.ny - 1)
prevBoundaryGrid(p) == Grid(p.nx, p.nx + 1, 1, p.ny - 1)
nextBoundaryGrid(p) == Grid(1, 2, 1, p.ny - 1)

\* the steps of prev_boundary, next_boundary and one pass of the time loop, in program order
\* fault variant: prev_boundary exchanges no rows
prev_boundarySteps_NoExchange(p) == <<"prev_eval">>

prev_boundarySteps(p) ==
  IF p.rank > 0 THEN <<"prev_send", "prev_recv", "prev_eval">> ELSE <<"prev_eval">>

\* fault variant: next_boundary sends before it receives
next_boundarySteps_SendFirst(p) ==
  IF p.rank < p.nranks - 1 THEN <<"next_send", "next_recv", "next_eval">>
  ELSE <<"next_eval">>

next_boundarySteps(p) ==
  IF p.rank < p.nranks - 1 THEN <<"next_recv", "next_send", "next_eval">>
  ELSE <<"next_eval">>

\* fault variant: the interior is evaluated before next_boundary
iterationSteps_InternalFirst(p) ==
  prev_boundarySteps(p) \o <<"internal">> \o next_boundarySteps(p) \o <<"reduce", "swap">>

iterationSteps(p) ==
  prev_boundarySteps(p) \o next_boundarySteps(p) \o <<"internal">> \o <<"reduce", "swap">>

\* the step that follows step s in one pass of the loop body ("loop": back to the for condition)
Succ(s, p) ==
  LET steps == iterationSteps(p)
      k == CHOOSE j \in 1 .. Len(steps) : steps[j] = s
  IN IF k = Len(steps) THEN "loop" ELSE steps[k + 1]

\* fault variant: both sends use tag 0
sendArgs_SameTag(s, p) ==
  IF s = "prev_send"
  THEN [peer |-> p.rank - 1, tag |-> TagToPrev, base |-> p.ny, count |-> p.ny]
  ELSE [peer |-> p.rank + 1, tag |-> TagToPrev, base |-> p.nx * p.ny, count |-> p.ny]

\* arguments of the MPI_Send of prev_boundary and of next_boundary
sendArgs(s, p) ==
  IF s = "prev_send"
  THEN [peer |-> p.rank - 1, tag |-> TagToPrev, base |-> p.ny, count |-> p.ny]
  ELSE [peer |-> p.rank + 1, tag |-> TagToNext, base |-> p.nx * p.ny, count |-> p.ny]

\* arguments of the MPI_Recv of prev_boundary and of next_boundary
recvArgs(s, p) ==
  IF s = "prev_recv"
  THEN [peer |-> p.rank - 1, tag |-> TagToNext, base |-> 0, count |-> p.ny]
  ELSE [peer |-> p.rank + 1, tag |-> TagToPrev, base |-> (p.nx + 1) * p.ny, count |-> p.ny]

\* position in a channel of the first message a receive with this tag matches, 0 if none
FirstMatch(q, tag) ==
  IF \E k \in 1 .. Len(q) : q[k].tag = tag
  THEN CHOOSE k \in 1 .. Len(q) : q[k].tag = tag /\ \A j \in 1 .. k - 1 : q[j].tag # tag
  ELSE 0

RemoveAt(q, k) == [j \in 1 .. Len(q) - 1 |-> IF j < k THEN q[j] ELSE q[j + 1]]

\* fault variant: u_old = u_new instead of a swap
swap_Assign(a, b) == <<a, a>>

\* std::swap(u_new, u_old): the pair <<u_new, u_old>> after the swap
swap(a, b) == <<b, a>>

\* energy += region result
accumulate(e, region) == e + region

RECURSIVE SumHeads(_, _)
SumHeads(q, S) ==
  IF S = {} THEN 0
  ELSE LET r == CHOOSE x \in S : TRUE IN Head(q[r]) + SumHeads(q, S \ {r})

\* fault variant: the root's own energy is not part of the sum
reduceSum_NotInPlace(rootEnergy, q, others) == SumHeads(q, others)

\* MPI_SUM over the contributions of all ranks, the root's being its own energy (MPI_IN_PLACE)
reduceSum(rootEnergy, q, others) == rootEnergy + SumHeads(q, others)

Neighbours == {c \in Ranks \X Ranks : c[1] - c[2] = 1 \/ c[2] - c[1] = 1}

\* no function is called on its own
KernelIdle ==
  /\ kMode = "none"
  /\ kRank = 0
  /\ kCell = <<0, 0>>
  /\ kGrid = Grid(0, 0, 0, 0)
  /\ kNew = <<>>
  /\ kOld = <<>>
  /\ kSnap = <<>>
  /\ kRet = <<>>
  /\ kState = <<>>

\* main up to the time loop, for given parameters
ProgramStart ==
  /\ pc = [r \in Ranks |-> "loop"]
  /\ it = [r \in Ranks |-> 0]
  /\ energy = [r \in Ranks |-> 0]
  /\ buf = [r \in Ranks |->
             LET z == ZeroVector(AllocSize(P(r)))
                 i == initialize(z, z, AllocSize(P(r)))
             IN [A |-> i.u_new, B |-> i.u_old]]
  /\ u_new = [r \in Ranks |-> "A"]
  /\ u_old = [r \in Ranks |-> "B"]
  /\ chan = [c \in Neighbours |-> <<>>]
  /\ sendPosted = [r \in Ranks |-> FALSE]
  /\ redq = [r \in Ranks |-> <<>>]
  /\ aborted = FALSE
  /\ stderr = <<>>
  /\ req = [r \in Ranks |-> {}]
  /\ file = {}
  /\ closed = [r \in Ranks |-> FALSE]
  /\ log = [r \in Ranks |-> <<>>]
  /\ parts = [r \in Ranks |-> <<>>]
  /\ hist = [r \in Ranks |-> <<>>]
  /\ haloIt = [r \in Ranks |-> [A |-> [lo |-> -1, hi |-> -1], B |-> [lo |-> -1, hi |-> -1]]]
  /\ readIt = [r \in Ranks |-> [lo |-> -1, loAt |-> -1, hi |-> -1, hiAt |-> -1]]
  /\ wbuf = [r \in Ranks |-> "none"]
  /\ sent = [r \in Ranks |-> <<>>]
  /\ recvd = [r \in Ranks |-> <<>>]

Init ==
  /\ NDEBUG \in BOOLEAN
  /\ syncSend \in BOOLEAN
  /\ nx \in 2 .. MaxNx
  /\ ny = nx + 1
  /\ ni \in 0 .. MaxNi
  /\ nranks \in 1 .. MaxRanks
  /\ ProgramStart
  /\ KernelIdle

params == <<NDEBUG, syncSend, nx, ny, ni, nranks>>
fileVars == <<req, file, closed>>
commVars == <<chan, sendPosted, redq>>
evalHist == <<parts, hist, readIt, wbuf>>
msgHist == <<sent, recvd>>

\* for (long it = 0; it < p.nit(); ++it) { double energy = 0.; ...
LoopHead(r) ==
  /\ ~aborted
  /\ pc[r] = "loop"
  /\ IF it[r] < nit(P(r))
     THEN /\ pc' = [pc EXCEPT ![r] = iterationSteps(P(r))[1]]
          /\ energy' = [energy EXCEPT ![r] = 0]
          /\ log' = [log EXCEPT ![r] = <<>>]
          /\ parts' = [parts EXCEPT ![r] = <<>>]
     ELSE /\ pc' = [pc EXCEPT ![r] = "file_write"]
          /\ UNCHANGED <<energy, log, parts>>
  /\ UNCHANGED <<params, kernelVars, it, buf, u_new, u_old, commVars, aborted, stderr, fileVars,
                 hist, haloIt, readIt, wbuf, msgHist>>

\* MPI_Send: the row is handed to MPI; a buffered send returns at once
MPI_Send(r) ==
  /\ ~aborted
  /\ pc[r] \in {"prev_send", "next_send"}
  /\ ~sendPosted[r]
  /\ LET a == sendArgs(pc[r], P(r))
         m == [tag |-> a.tag, count |-> a.count,
               data |-> [j \in 0 .. a.count - 1 |-> buf[r][u_old[r]][a.base + j]],
               it |-> it[r], src |-> a.base]
     IN /\ chan' = [chan EXCEPT ![<<r, a.peer>>] = Append(@, m)]
        /\ sent' = [sent EXCEPT ![r] =
                      Append(@, [to |-> a.peer, tag |-> m.tag, it |-> m.it,
                                 src |-> m.src, count |-> m.count])]
        /\ IF syncSend
           THEN /\ sendPosted' = [sendPosted EXCEPT ![r] = TRUE]
                /\ UNCHANGED <<pc, log>>
           ELSE /\ pc' = [pc EXCEPT ![r] = Succ(pc[r], P(r))]
                /\ log' = [log EXCEPT ![r] = Append(@, pc[r])]
                /\ UNCHANGED sendPosted
  /\ UNCHANGED <<params, kernelVars, it, energy, buf, u_new, u_old, redq, aborted, stderr, fileVars,
                 evalHist, haloIt, recvd>>

\* TRUE when the synchronous MPI_Send process r is blocked in can return
SendReady(r) ==
  /\ sendPosted[r]
  /\ LET a == sendArgs(pc[r], P(r))
     IN FirstMatch(chan[<<r, a.peer>>], a.tag) = 0

\* a synchronous MPI_Send returns once its message has been received
SendComplete(r) ==
  /\ ~aborted
  /\ SendReady(r)
  /\ sendPosted' = [sendPosted EXCEPT ![r] = FALSE]
  /\ pc' = [pc EXCEPT ![r] = Succ(pc[r], P(r))]
  /\ log' = [log EXCEPT ![r] = Append(@, pc[r])]
  /\ UNCHANGED <<params, kernelVars, it, energy, buf, u_new, u_old, chan, redq, aborted, stderr,
                 fileVars, evalHist, haloIt, msgHist>>

\* TRUE when the MPI_Recv process r is at can return
RecvReady(r) ==
  /\ pc[r] \in {"prev_recv", "next_recv"}
  /\ LET a == recvArgs(pc[r], P(r))
         k == FirstMatch(chan[<<a.peer, r>>], a.tag)
     IN k > 0 /\ chan[<<a.peer, r>>][k].count <= a.count

\* MPI_Recv: the first message from the peer with the tag is copied into the halo row
MPI_Recv(r) ==
  /\ ~aborted
  /\ RecvReady(r)
  /\ LET a == recvArgs(pc[r], P(r))
         q == chan[<<a.peer, r>>]
         k == FirstMatch(q, a.tag)
         m == q[k]
         h == u_old[r]
     IN /\ buf' = [buf EXCEPT ![r][h] =
                     [i \in DOMAIN @ |->
                        IF i >= a.base /\ i < a.base + m.count THEN m.data[i - a.base]
                        ELSE @[i]]]
        /\ chan' = [chan EXCEPT ![<<a.peer, r>>] = RemoveAt(q, k)]
        /\ haloIt' = [haloIt EXCEPT ![r][h] =
                        IF a.base = 0 THEN [@ EXCEPT !.lo = m.it]
                        ELSE [@ EXCEPT !.hi = m.it]]
        /\ recvd' = [recvd EXCEPT ![r] =
                       Append(@, [from |-> a.peer, tag |-> m.tag, it |-> m.it,
                                  at |-> it[r], src |-> m.src, dst |-> a.base,
                                  count |-> m.count])]
  /\ pc' = [pc EXCEPT ![r] = Succ(pc[r], P(r))]
  /\ log' = [log EXCEPT ![r] = Append(@, pc[r])]
  /\ UNCHANGED <<params, kernelVars, it, energy, u_new, u_old, sendPosted, redq, aborted, stderr,
                 fileVars, evalHist, sent>>

\* one region evaluation of process r at step s over grid g: energy += stencil(u_new, u_old, g, p);
\* with asserts compiled in, a failing assert of index aborts the job
Evaluate(r, s, g) ==
  /\ ~aborted
  /\ pc[r] = s
  /\ IF ~gridReturns(g, P(r))
     THEN /\ aborted' = TRUE
          /\ UNCHANGED <<pc, energy, buf, log, parts, readIt, wbuf>>
     ELSE LET res == stencil_grid(buf[r][u_new[r]], buf[r][u_old[r]], g, P(r))
              rows == {c[1] : c \in gridCells(g)}
          IN /\ buf' = [buf EXCEPT ![r][u_new[r]] = res.u_new, ![r][u_old[r]] = res.u_old]
             /\ energy' = [energy EXCEPT ![r] = accumulate(@, res.e)]
             /\ parts' = [parts EXCEPT ![r] = Append(@, res.e)]
             /\ readIt' = [readIt EXCEPT ![r] =
                  [lo   |-> IF 1 \in rows THEN haloIt[r][u_old[r]].lo ELSE @.lo,
                   loAt |-> IF 1 \in rows THEN it[r] ELSE @.loAt,
                   hi   |-> IF nx \in rows THEN haloIt[r][u_old[r]].hi ELSE @.hi,
                   hiAt |-> IF nx \in rows THEN it[r] ELSE @.hiAt]]
             /\ wbuf' = [wbuf EXCEPT ![r] = u_new[r]]
             /\ pc' = [pc EXCEPT ![r] = Succ(s, P(r))]
             /\ log' = [log EXCEPT ![r] = Append(@, s)]
             /\ UNCHANGED aborted
  /\ UNCHANGED <<params, kernelVars, it, u_new, u_old, commVars, stderr, fileVars, hist, haloIt, msgHist>>

\* the region evaluation of prev_boundary
prev_boundary(r) == Evaluate(r, "prev_eval", prevBoundaryGrid(P(r)))

\* the region evaluation of next_boundary
next_boundary(r) == Evaluate(r, "next_eval", nextBoundaryGrid(P(r)))

\* internal
internal(r) == Evaluate(r, "internal", internalGrid(P(r)))

\* TRUE when the MPI_Reduce process r is at can return
ReduceReady(r) ==
  /\ pc[r] = "reduce"
  /\ r = 0 => \A q \in Ranks \ {0} : redq[q] # <<>>

\* MPI_Reduce to rank 0 and the energy line rank 0 prints
MPI_Reduce(r) ==
  /\ ~aborted
  /\ ReduceReady(r)
  /\ hist' = [hist EXCEPT ![r] = Append(@, energy[r])]
  /\ IF r = 0
     THEN LET sum == reduceSum(energy[r], redq, Ranks \ {0})
          IN /\ energy' = [energy EXCEPT ![r] = sum]
             /\ redq' = [q \in Ranks |-> IF q = 0 THEN redq[q] ELSE Tail(redq[q])]
             /\ stderr' = IF it[r] % nout(P(r)) = 0
                          THEN Append(stderr, [it |-> it[r], energy |-> sum])
                          ELSE stderr
     ELSE /\ redq' = [redq EXCEPT ![r] = Append(@, energy[r])]
          /\ UNCHANGED <<energy, stderr>>
  /\ pc' = [pc EXCEPT ![r] = Succ(pc[r], P(r))]
  /\ log' = [log EXCEPT ![r] = Append(@, pc[r])]
  /\ UNCHANGED <<params, kernelVars, it, buf, u_new, u_old, chan, sendPosted, aborted, fileVars,
                 parts, readIt, wbuf, haloIt, msgHist>>

\* std::swap(u_new, u_old); ++it
Swap(r) ==
  /\ ~aborted
  /\ pc[r] = "swap"
  /\ LET sw == swap(u_new[r], u_old[r])
     IN /\ u_new' = [u_new EXCEPT ![r] = sw[1]]
        /\ u_old' = [u_old EXCEPT ![r] = sw[2]]
  /\ it' = [it EXCEPT ![r] = @ + 1]
  /\ pc' = [pc EXCEPT ![r] = Succ(pc[r], P(r))]
  /\ log' = [log EXCEPT ![r] = Append(@, pc[r])]
  /\ UNCHANGED <<params, kernelVars, energy, buf, commVars, aborted, stderr, fileVars, evalHist,
                 haloIt, msgHist>>

header_bytes == 2 * SizeofLong + SizeofDouble
values_per_rank(p) == p.nx * p.ny
values_bytes_per_rank(p) == values_per_rank(p) * SizeofDouble
values_offset(p) == header_bytes + p.rank * values_bytes_per_rank(p)
file_size(p) == header_bytes + values_bytes_per_rank(p) * p.nranks

\* which pointer the values written to the file are read through
outputPointer(r) == u_new[r]

\* the three MPI_File_iwrite_at requests of process r (req[1], req[2] only on rank 0)
fileRequests(r) ==
  LET p == P(r)
      src == buf[r][outputPointer(r)]
  IN {[rank |-> r, id |-> 0, off |-> values_offset(p), bytes |-> values_bytes_per_rank(p),
       data |-> [k \in 0 .. values_per_rank(p) - 1 |-> src[p.ny + k]]]}
     \cup (IF p.rank = 0
           THEN {[rank |-> r, id |-> 1, off |-> 0, bytes |-> 2 * SizeofLong,
                  data |-> <<p.nx * p.nranks, p.ny>>],
                 [rank |-> r, id |-> 2, off |-> 2 * SizeofLong, bytes |-> SizeofDouble,
                  data |-> <<nit(p)>>]}
           ELSE {})

\* MPI_File_open, MPI_File_set_size and the MPI_File_iwrite_at calls
FileWrite(r) ==
  /\ ~aborted
  /\ pc[r] = "file_write"
  /\ req' = [req EXCEPT ![r] = fileRequests(r)]
  /\ pc' = [pc EXCEPT ![r] = "file_waitall"]
  /\ UNCHANGED <<params, kernelVars, it, energy, buf, u_new, u_old, commVars, aborted, stderr, file,
                 closed, log, evalHist, haloIt, msgHist>>

\* fault variant: every process waits for its first request only
waitCount_One(p) == 1

\* the number of requests MPI_Waitall waits for: p.rank == 0 ? 3 : 1
waitCount(p) == IF p.rank = 0 THEN 3 ELSE 1

\* the content of a write whose buffer was no longer alive when the write was carried out
Indeterminate == <<>>

\* what a completed request q can have put in the file: the header requests read total and
\* time, locals of a block that has ended before MPI_Waitall, so their content is the
\* intended one or indeterminate
completions(q) == IF q.id = 0 THEN {q} ELSE {q, [q EXCEPT !.data = Indeterminate]}

\* the possible outcomes of completing the requests of the set Q
outcomes(Q) ==
  {S \in SUBSET (UNION {completions(q) : q \in Q}) :
     /\ Cardinality(S) = Cardinality(Q)
     /\ \A q \in Q : Cardinality(S \cap completions(q)) = 1}

\* MPI_Waitall(p.rank == 0 ? 3 : 1, req, ...): returns when the first waitCount entries of
\* req are complete; a nonblocking write is taken to reach the file by then
WaitAll(r) ==
  /\ ~aborted
  /\ pc[r] = "file_waitall"
  /\ LET waited == {q \in req[r] : q.id < waitCount(P(r))}
     IN /\ \E S \in outcomes(waited) : file' = file \cup S
        /\ req' = [req EXCEPT ![r] = @ \ waited]
  /\ pc' = [pc EXCEPT ![r] = "file_close"]
  /\ UNCHANGED <<params, kernelVars, it, energy, buf, u_new, u_old, commVars, aborted, stderr,
                 closed, log, evalHist, haloIt, msgHist>>

\* MPI_File_close; MPI_Finalize; return 0
FileClose(r) ==
  /\ ~aborted
  /\ pc[r] = "file_close"
  /\ closed' = [closed EXCEPT ![r] = TRUE]
  /\ pc' = [pc EXCEPT ![r] = "done"]
  /\ UNCHANGED <<params, kernelVars, it, energy, buf, u_new, u_old, commVars, aborted, stderr, req,
                 file, log, evalHist, haloIt, msgHist>>

Next ==
  \/ \E r \in Ranks : LoopHead(r)
  \/ \E r \in Ranks : MPI_Send(r)
  \/ \E r \in Ranks : SendComplete(r)
  \/ \E r \in Ranks : MPI_Recv(r)
  \/ \E r \in Ranks : prev_boundary(r)
  \/ \E r \in Ranks : next_boundary(r)
  \/ \E r \in Ranks : internal(r)
  \/ \E r \in Ranks : MPI_Reduce(r)
  \/ \E r \in Ranks : Swap(r)
  \/ \E r \in Ranks : FileWrite(r)
  \/ \E r \in Ranks : WaitAll(r)
  \/ \E r \in Ranks : FileClose(r)

Spec == Init /\ [][Next]_vars

(***************************************************************************)
(* The functions of the program called on their own (KernelSpec): one call *)
(* of initialize, two calls of the cell stencil at one coordinate, or one  *)
(* region evaluation whose per-cell computations run in any interleaving   *)
(* (std::execution::par), each on buffers of arbitrary contents.           *)
(***************************************************************************)

\* Bound: a region evaluated cell by cell has at most MaxCells cells
MaxCells == 4

\* buffer contents the calls are tried on: n cells of kind k, all zero for k = 0
ContentKinds == 0 .. 2
Contents(k, n) == [i \in 0 .. n - 1 |-> ((k * (i + 1)) % 3) * GammaDen]

\* fault variant: the y = 1 boundary value is written one column inward
injections_Inward(x, y, p) ==
  (IF y = 1 THEN {[at |-> <<x, y + 1>>, val |-> 0]} ELSE {})
  \cup (IF y = p.ny - 2 THEN {[at |-> <<x, y + 1>>, val |-> 0]} ELSE {})
  \cup (IF p.rank = 0 /\ x = 1 THEN {[at |-> <<x - 1, y>>, val |-> One]} ELSE {})
  \cup (IF p.rank = p.nranks - 1 /\ x = p.nx THEN {[at |-> <<x + 1, y>>, val |-> 0]} ELSE {})

\* the boundary conditions one stencil call imposes: the cell of u_old and the value it gets
injections(x, y, p) ==
  (IF y = 1 THEN {[at |-> <<x, y - 1>>, val |-> 0]} ELSE {})
  \cup (IF y = p.ny - 2 THEN {[at |-> <<x, y + 1>>, val |-> 0]} ELSE {})
  \cup (IF p.rank = 0 /\ x = 1 THEN {[at |-> <<x - 1, y>>, val |-> One]} ELSE {})
  \cup (IF p.rank = p.nranks - 1 /\ x = p.nx THEN {[at |-> <<x + 1, y>>, val |-> 0]} ELSE {})

\* u_old after the boundary conditions of stencil(x, y)
inject(uo, x, y, p) ==
  [i \in DOMAIN uo |->
     IF \E w \in injections(x, y, p) : index(w.at[1], w.at[2], p) = i
     THEN (CHOOSE w \in injections(x, y, p) : index(w.at[1], w.at[2], p) = i).val
     ELSE uo[i]]

\* the cells of u_old the update of stencil(x, y) reads
stencilReads(x, y) == {<<x, y>>, <<x + 1, y>>, <<x - 1, y>>, <<x, y + 1>>, <<x, y - 1>>}

\* the update of stencil(x, y): the new value of u_new(x, y) and the returned energy term
update(un, uo, x, y, p) ==
  LET idx(a, b) == index(a, b, p)
      v  == ((GammaDen - 4) * uo[idx(x, y)]
              + (uo[idx(x + 1, y)] + uo[idx(x - 1, y)] + uo[idx(x, y + 1)]
                 + uo[idx(x, y - 1)])) \div GammaDen
      n1 == [un EXCEPT ![idx(x, y)] = v]
  IN [u_new |-> n1, e |-> n1[idx(x, y)] * n1[idx(x, y)]]

\* the regions inside the owned non-edge cells, and the three regions the program evaluates
Regions(p) ==
  {g \in {Grid(xs, xe, ys, ye) : xs \in 1 .. p.nx, xe \in 2 .. p.nx + 1,
                                 ys \in 1 .. p.ny - 2, ye \in 2 .. p.ny - 1} :
     g.x_start < g.x_end /\ g.y_start < g.y_end}
  \cup {internalGrid(p), prevBoundaryGrid(p), nextBoundaryGrid(p)}

programVars == <<params, pc, it, energy, buf, u_new, u_old, commVars, stderr, fileVars,
                 log, evalHist, haloIt, msgHist>>

KernelInit ==
  /\ NDEBUG \in BOOLEAN
  /\ syncSend = FALSE
  /\ nx \in 2 .. MaxNx + 1
  /\ ny \in 3 .. MaxNx + 2
  /\ ni = 0
  /\ nranks \in 1 .. MaxRanks
  /\ ProgramStart
  /\ kMode \in {"stencil", "initialize", "region"}
  /\ kRank \in Ranks
  /\ \E k \in ContentKinds :
       /\ kOld = Contents(k, AllocSize(P(kRank)))
       /\ kNew = Contents((k + 1) % 3, AllocSize(P(kRank)))
  /\ kCell \in IF kMode = "stencil" THEN (1 .. nx) \X (1 .. ny - 2) ELSE {<<0, 0>>}
  /\ kGrid \in IF kMode = "region"
               THEN {g \in Regions(P(kRank)) : gridSize(g) <= MaxCells}
               ELSE {Grid(0, 0, 0, 0)}
  /\ kSnap = <<[u_new |-> kNew, u_old |-> kOld]>>
  /\ kRet = <<>>
  /\ kState = [i \in 0 .. gridSize(kGrid) - 1 |-> "todo"]

\* initialize(u_new, u_old, n)
CallInitialize ==
  /\ kMode = "initialize"
  /\ Len(kSnap) = 1
  /\ LET res == initialize(kNew, kOld, AllocSize(P(kRank)))
     IN /\ kNew' = res.u_new
        /\ kOld' = res.u_old
        /\ kSnap' = Append(kSnap, [u_new |-> res.u_new, u_old |-> res.u_old])
  /\ UNCHANGED <<programVars, aborted, kMode, kRank, kCell, kGrid, kRet, kState>>

\* stencil(u_new, u_old, x, y, p), called at most twice at the same coordinate
CallStencil ==
  /\ kMode = "stencil"
  /\ ~aborted
  /\ Len(kSnap) <= 2
  /\ LET p == P(kRank)
         x == kCell[1]
         y == kCell[2]
     IN IF ~stencilReturns(x, y, p)
        THEN /\ aborted' = TRUE
             /\ UNCHANGED <<kNew, kOld, kSnap, kRet>>
        ELSE LET res == stencil(kNew, kOld, x, y, p)
             IN /\ kNew' = res.u_new
                /\ kOld' = res.u_old
                /\ kSnap' = Append(kSnap, [u_new |-> res.u_new, u_old |-> res.u_old])
                /\ kRet' = Append(kRet, res.e)
                /\ UNCHANGED aborted
  /\ UNCHANGED <<programVars, kMode, kRank, kCell, kGrid, kState>>

\* the computation of flat index i of the region imposes its boundary conditions
CellInject(i) ==
  /\ kMode = "region"
  /\ ~aborted
  /\ kState[i] = "todo"
  /\ LET p == P(kRank)
         c == split(i, kGrid)
     IN IF ~stencilReturns(c[1], c[2], p)
        THEN /\ aborted' = TRUE
             /\ UNCHANGED <<kOld, kState>>
        ELSE /\ kOld' = inject(kOld, c[1], c[2], p)
             /\ kState' = [kState EXCEPT ![i] = "injected"]
             /\ UNCHANGED aborted
  /\ UNCHANGED <<programVars, kMode, kRank, kCell, kGrid, kNew, kSnap, kRet>>

\* the computation of flat index i of the region reads its neighbourhood and writes u_new
CellUpdate(i) ==
  /\ kMode = "region"
  /\ ~aborted
  /\ kState[i] = "injected"
  /\ LET p == P(kRank)
         c == split(i, kGrid)
     IN kNew' = update(kNew, kOld, c[1], c[2], p).u_new
  /\ kState' = [kState EXCEPT ![i] = "done"]
  /\ UNCHANGED <<programVars, aborted, kMode, kRank, kCell, kGrid, kOld, kSnap, kRet>>

KernelNext ==
  \/ CallInitialize
  \/ CallStencil
  \/ \E i \in DOMAIN kState : CellInject(i)
  \/ \E i \in DOMAIN kState : CellUpdate(i)

KernelSpec == KernelInit /\ [][KernelNext]_vars

(***************************************************************************)
(* Reference: the same global problem on one process.                      *)
(***************************************************************************)

\* n passes of the time loop on a single process: prev_boundary, next_boundary, internal, swap
RECURSIVE SingleProcess(_, _, _, _)
SingleProcess(un, uo, p, n) ==
  IF n = 0 THEN [u_new |-> un, u_old |-> uo]
  ELSE LET a == stencil_grid(un, uo, prevBoundaryGrid(p), p)
           b == stencil_grid(a.u_new, a.u_old, nextBoundaryGrid(p), p)
           c == stencil_grid(b.u_new, b.u_old, internalGrid(p), p)
           sw == swap(c.u_new, c.u_old)
       IN SingleProcess(sw[1], sw[2], p, n - 1)

\* the parameters of the single-process run on the global grid
GlobalP == [nx |-> nx * nranks, ny |-> ny, ni |-> ni, rank |-> 0, nranks |-> 1]

\* the field after ni time steps of the single-process run: the allocation written last
ReferenceField ==
  LET z == ZeroVector(AllocSize(GlobalP))
  IN SingleProcess(z, z, GlobalP, ni).u_old

\* the field of process r after its time loop: the allocation written by the last iteration
FinalField(r) == buf[r][u_old[r]]

AfterLoop == {"file_write", "file_waitall", "file_close", "done"}

(***************************************************************************)
(* Claims                                                                  *)
(***************************************************************************)

\* C1: multi-process equivalence.  When process r leaves the time loop, its rows 1..nx
\* equal rows r*nx+1..(r+1)*nx of the field one process computes on the global grid
\* (nranks*nx by ny) in the same number of iterations.
C1_MultiProcessEquivalence ==
  \A r \in Ranks :
    pc[r] = "file_write" =>
      \A x \in 1 .. nx : \A y \in 0 .. ny - 1 :
        FinalField(r)[x * ny + y] = ReferenceField[(r * nx + x) * ny + y]

\* C2: a seam row is evaluated only after its halo row was received in the same iteration:
\* row 1 after row 0 came from rank-1, row nx after row nx+1 came from rank+1, each sent by
\* the neighbour in the iteration of the same index.
C2_SeamAfterHalo ==
  \A r \in Ranks :
    /\ (r > 0 /\ readIt[r].loAt >= 0) => readIt[r].lo = readIt[r].loAt
    /\ (r < nranks - 1 /\ readIt[r].hiAt >= 0) => readIt[r].hi = readIt[r].hiAt

Unfinished(r) == pc[r] # "done"

\* process r is inside a blocking MPI call that cannot return in this state
Blocked(r) ==
  \/ pc[r] \in {"prev_recv", "next_recv"} /\ ~RecvReady(r)
  \/ sendPosted[r] /\ ~SendReady(r)
  \/ pc[r] = "reduce" /\ ~ReduceReady(r)

\* C3: deadlock-freedom.  As long as the job runs and some process has not finished, not
\* every unfinished process is blocked in a send, a receive or the reduction; this with
\* buffered and with synchronous sends.
C3_DeadlockFree ==
  (~aborted /\ \E r \in Ranks : Unfinished(r)) =>
     \E r \in Ranks : Unfinished(r) /\ ~Blocked(r)

\* C3 witness: with synchronous sends and three processes, every process has completed
\* prev_boundary and next_boundary of its second iteration.
C3_Witness ==
  /\ syncSend /\ nranks = 3
  /\ \A r \in Ranks : it[r] = 1 /\ pc[r] = "internal"

\* the messages of a sequence of sent records that go to d, and of received records from s
SentTo(q, d) == SelectSeq(q, LAMBDA m : m.to = d)
RecvdFrom(q, s) == SelectSeq(q, LAMBDA m : m.from = s)
Stamps(q) == [k \in 1 .. Len(q) |-> <<q[k].tag, q[k].it, q[k].src, q[k].count>>]

\* C4: message symmetry.  Every message in flight is the one the destination's receive
\* from that source takes (same tag, same size; row 1 to row nx+1 with tag 0 downwards,
\* row nx to row 0 with tag 1 upwards); what a process received from a neighbour, followed
\* by what is still in flight, is exactly what the neighbour sent, in order; a receive
\* gets the message of its own iteration; nothing is in flight once all have left the loop.
C4_MessageSymmetry ==
  /\ TagToPrev # TagToNext
  /\ \A c \in Neighbours :
       LET s == c[1]
           d == c[2]
           ra == recvArgs(IF s = d + 1 THEN "next_recv" ELSE "prev_recv", P(d))
       IN /\ \A k \in 1 .. Len(chan[c]) :
               /\ chan[c][k].tag = ra.tag
               /\ chan[c][k].count = ra.count
               /\ ra.peer = s
               /\ chan[c][k].count = ny
               /\ chan[c][k].tag = (IF s = d + 1 THEN 0 ELSE 1)
               /\ chan[c][k].src = (IF s = d + 1 THEN ny ELSE nx * ny)
               /\ ra.base = (IF s = d + 1 THEN (nx + 1) * ny ELSE 0)
          /\ Stamps(SentTo(sent[s], d))
               = Stamps(RecvdFrom(recvd[d], s)) \o Stamps(chan[c])
          /\ \A k \in 1 .. Len(recvd[d]) :
               recvd[d][k].from = s =>
                 /\ recvd[d][k].it = recvd[d][k].at
                 /\ recvd[d][k].dst = ra.base
          /\ (\A r \in Ranks : pc[r] \in AfterLoop) => chan[c] = <<>>

\* C4 witness: the run of three processes has ended and the middle one received a row
\* from each side in every one of at least two iterations.
C4_Witness ==
  /\ nranks = 3 /\ ni >= 2
  /\ \A r \in Ranks : pc[r] = "done"
  /\ Len(RecvdFrom(recvd[1], 0)) = ni
  /\ Len(RecvdFrom(recvd[1], 2)) = ni

InLog(r, s) == \E k \in 1 .. Len(log[r]) : log[r][k] = s
Pos(r, s) == CHOOSE k \in 1 .. Len(log[r]) : log[r][k] = s
Precedes(r, a, b) == InLog(r, b) => (InLog(r, a) /\ Pos(r, a) < Pos(r, b))

\* the two halo rows of an allocation
HaloRows(cells) ==
  [i \in {j \in DOMAIN cells : j < ny \/ j >= (nx + 1) * ny} |-> cells[i]]

\* the order of the steps of the current iteration of process r
C5_Order(r) ==
  /\ pc[r] \in {"internal", "reduce", "swap"} =>
       /\ InLog(r, "prev_eval") /\ InLog(r, "next_eval")
       /\ r > 0 => InLog(r, "prev_send") /\ InLog(r, "prev_recv")
       /\ r < nranks - 1 => InLog(r, "next_recv") /\ InLog(r, "next_send")
  /\ r > 0 => Precedes(r, "prev_send", "prev_eval") /\ Precedes(r, "prev_recv", "prev_eval")
  /\ r < nranks - 1 =>
       Precedes(r, "next_recv", "next_eval") /\ Precedes(r, "next_send", "next_eval")
  /\ Precedes(r, "prev_eval", "internal")
  /\ Precedes(r, "next_eval", "internal")
  /\ Precedes(r, "internal", "reduce")
  /\ Precedes(r, "reduce", "swap")
  /\ InLog(r, "swap") => log[r][Len(log[r])] = "swap"

\* C5: driver ordering.  In every iteration of every process both boundary exchanges
\* (communication and seam evaluation) are complete before the interior is evaluated, the
\* reduction follows the three evaluations and the swap is last; from the interior
\* evaluation to the swap no step changes the halo rows of the current buffer.
C5_DriverOrdering ==
  /\ [](\A r \in Ranks : C5_Order(r))
  /\ [][\A r \in Ranks :
          pc[r] \in {"internal", "reduce", "swap"} =>
            HaloRows(buf'[r][u_old[r]]) = HaloRows(buf[r][u_old[r]])]_vars

\* C5 witness: a middle process with a non-empty interior is about to swap at the end of
\* its second iteration, having received both halo rows.
C5_Witness ==
  /\ nranks = 3 /\ nx = 3
  /\ pc[1] = "swap" /\ it[1] = 1
  /\ haloIt[1][u_old[1]] = [lo |-> 1, hi |-> 1]

\* C6: the block a process writes to the output file is rows 1..nx of the buffer the last
\* iteration wrote, i.e. the field after ni time steps.
C6_OutputIsFinalField ==
  \A q \in file :
    (q.id = 0 /\ ni >= 1) =>
      q.data = [k \in 0 .. nx * ny - 1 |-> buf[q.rank][wbuf[q.rank]][ny + k]]

\* the grid of the region evaluation at step s of process r
GridAt(r, s) ==
  IF s = "prev_eval" THEN prevBoundaryGrid(P(r))
  ELSE IF s = "next_eval" THEN nextBoundaryGrid(P(r))
  ELSE internalGrid(P(r))

\* C7: no addressing violation in a run: no assert of index fires, every index call of
\* every stencil call of the region evaluations a process has run being within the
\* bounds index asserts.
C7_NoAddressingViolation ==
  /\ ~aborted
  /\ \A r \in Ranks : \A s \in {"prev_eval", "next_eval", "internal"} :
       InLog(r, s) =>
         \A c \in gridCells(GridAt(r, s)) :
           \A k \in stencilCalls(c[1], c[2], P(r)) : indexAssert(k[1], k[2], P(r))

\* C8: addressing bijectivity.  For all 0 <= x < nx+2 and 0 <= y < ny, index yields an
\* offset in [0, (nx+2)*ny), and distinct coordinate pairs yield distinct offsets.
C8_AddressingBijective ==
  LET X == 0 .. nx + 1
      Y == 0 .. ny - 1
      p == P(0)
  IN /\ \A x \in X : \A y \in Y : index(x, y, p) \in 0 .. AllocSize(p) - 1
     /\ \A x1 \in X : \A y1 \in Y : \A x2 \in X : \A y2 \in Y :
          index(x1, y1, p) = index(x2, y2, p) => (x1 = x2 /\ y1 = y2)

\* C9: double-buffer swap.  The swap exchanges the two pointers and changes no cell; so
\* from the start of an iteration until its first evaluation, and after the loop, the
\* current buffer is the one the previous iteration wrote, and the next buffer is the other.
C9_DoubleBufferSwap ==
  /\ [][\A r \in Ranks :
          (pc[r] = "swap" /\ pc'[r] # "swap") =>
            /\ u_old'[r] = u_new[r]
            /\ u_new'[r] = u_old[r]
            /\ buf'[r] = buf[r]]_vars
  /\ [](\A r \in Ranks :
          /\ u_new[r] # u_old[r]
          /\ (it[r] >= 1 /\ (pc[r] \in AfterLoop \/ ~InLog(r, "prev_eval") \/ InLog(r, "swap")))
               => u_old[r] = wbuf[r]
          /\ (InLog(r, "prev_eval") /\ ~InLog(r, "swap") /\ pc[r] \notin AfterLoop)
               => u_new[r] = wbuf[r])

\* C9 witness: a process starts its third iteration reading a non-zero field written by
\* its second.
C9_Witness ==
  \E r \in Ranks :
    /\ it[r] = 2 /\ pc[r] = "prev_eval"
    /\ \E i \in DOMAIN buf[r][u_old[r]] : buf[r][u_old[r]][i] # 0
    /\ buf[r]["A"] # buf[r]["B"]

RECURSIVE SumOver(_, _)
SumOver(f, S) ==
  IF S = {} THEN 0
  ELSE LET r == CHOOSE x \in S : TRUE IN f[r] + SumOver(f, S \ {r})

\* C10: global energy reduction.  The energy rank 0 holds after the reduction of
\* iteration it is the sum over all ranks of the local energy of that same iteration, and
\* the local energy a rank brings to the reduction is the sum of its three region results.
C10_EnergyReduction ==
  /\ pc[0] = "swap" =>
       /\ \A r \in Ranks : Len(hist[r]) >= it[0] + 1
       /\ energy[0] = SumOver([r \in Ranks |-> hist[r][it[0] + 1]], Ranks)
  /\ \A r \in Ranks :
       pc[r] = "reduce" =>
         /\ Len(parts[r]) = 3
         /\ energy[r] = parts[r][1] + parts[r][2] + parts[r][3]
  /\ \A r \in Ranks : Len(redq[r]) <= 1

\* C10 witness: rank 0 holds the reduced energy of its third iteration, to which another
\* rank contributed a non-zero local energy.
C10_Witness ==
  /\ nranks = 3 /\ pc[0] = "swap" /\ it[0] = 2
  /\ hist[1][3] > 0
  /\ energy[0] > hist[0][3]


(***************************************************************************)
(* C11..C20                                                                *)
(***************************************************************************)

\* the three regions the program evaluates
ProgramRegions(p) == {internalGrid(p), prevBoundaryGrid(p), nextBoundaryGrid(p)}

\* the locations the computation of flat index i has written in u_old, read in u_old and
\* written in u_new so far
WrittenOld(i) ==
  IF kState[i] \in {"injected", "done"}
  THEN {index(w.at[1], w.at[2], P(kRank)) :
          w \in injections(split(i, kGrid)[1], split(i, kGrid)[2], P(kRank))}
  ELSE {}
ReadOld(i) ==
  IF kState[i] = "done"
  THEN {index(c[1], c[2], P(kRank)) : c \in stencilReads(split(i, kGrid)[1], split(i, kGrid)[2])}
  ELSE {}
WrittenNew(i) ==
  IF kState[i] = "done"
  THEN {index(split(i, kGrid)[1], split(i, kGrid)[2], P(kRank))}
  ELSE {}

AllDone == \A i \in DOMAIN kState : kState[i] = "done"

\* C11: while the cell computations of one of the three regions run in any interleaving, no
\* two of them have written the same location of either buffer, and none has read a location
\* of the current buffer that another one has written; so the buffers after the region do
\* not depend on the interleaving
C11_RegionRaceFree ==
  (kMode = "region" /\ kGrid \in ProgramRegions(P(kRank))) =>
    /\ \A i, j \in DOMAIN kState :
         i # j => /\ WrittenOld(i) \cap WrittenOld(j) = {}
                  /\ WrittenNew(i) \cap WrittenNew(j) = {}
                  /\ ReadOld(i) \cap WrittenOld(j) = {}
    /\ AllDone =>
         LET seq == stencil_grid(kSnap[1].u_new, kSnap[1].u_old, kGrid, P(kRank))
         IN kNew = seq.u_new /\ kOld = seq.u_old

\* a region of the program with several cells has been evaluated to the end
C11_Witness ==
  /\ kMode = "region"
  /\ kGrid \in ProgramRegions(P(kRank))
  /\ gridSize(kGrid) >= 3
  /\ AllDone
  /\ \E i \in DOMAIN kState : WrittenOld(i) # {}


\* gamma in the units of the cell values, and the energy term of a cell of value gamma
GammaValue == One \div GammaDen
GammaEnergy == GammaValue * GammaValue

\* the single process has evaluated its first iteration and not yet swapped
FirstIterationDone(r) == nranks = 1 /\ it[r] = 0 /\ pc[r] = "swap"

\* C12: on a single process, after one iteration from the zero field, next(1, y) = gamma for
\* 1 <= y <= ny-2, next(x, y) = 0 for 2 <= x <= nx, and the iteration's energy is
\* (ny-2) * 0.5 * gamma^2 * dx^2
C12_OneStepFromZero ==
  \A r \in Ranks :
    FirstIterationDone(r) =>
      LET p == P(r)
          next == buf[r][u_new[r]]
      IN /\ \A y \in 1 .. p.ny - 2 : next[p.ny + y] = GammaValue
         /\ \A x \in 2 .. p.nx : \A y \in 1 .. p.ny - 2 : next[x * p.ny + y] = 0
         /\ energy[r] = (p.ny - 2) * GammaEnergy
         /\ hist[r] = <<(p.ny - 2) * GammaEnergy>>

\* a single process with 3 by 4 cells has evaluated its first iteration
C12_Witness == FirstIterationDone(0) /\ nx = 3 /\ ny = 4 /\ energy[0] > 0


\* C13: whatever the buffers held, a stencil call at (x, y) leaves current(x, 0) = 0 when
\* y = 1, current(x, ny-1) = 0 when y = ny-2, current(0, y) = 1 when rank = 0 and x = 1,
\* current(nx+1, y) = 0 when rank = nranks-1 and x = nx; a second call at the same
\* coordinate changes neither buffer and returns the same energy
C13_InjectionIdempotent ==
  (kMode = "stencil" /\ Len(kSnap) >= 2) =>
    LET x == kCell[1]
        y == kCell[2]
        current == kSnap[2].u_old
    IN /\ y = 1 => current[x * ny + 0] = 0
       /\ y = ny - 2 => current[x * ny + (ny - 1)] = 0
       /\ (kRank = 0 /\ x = 1) => current[0 * ny + y] = One
       /\ (kRank = nranks - 1 /\ x = nx) => current[(nx + 1) * ny + y] = 0
       /\ Len(kSnap) = 3 => kSnap[3] = kSnap[2] /\ kRet[2] = kRet[1]

\* stencil has been called twice at a corner cell of rank 0 whose ghost cells held other values
C13_Witness ==
  /\ kMode = "stencil"
  /\ Len(kSnap) = 3
  /\ kRank = 0
  /\ kCell = <<1, 1>>
  /\ kSnap[1].u_old[0 * ny + 1] # One
  /\ kSnap[1].u_old[1 * ny + 0] # 0


\* the byte range [off, off + bytes) of two write requests do not overlap
DisjointBytes(a, b) == a.off + a.bytes <= b.off \/ b.off + b.bytes <= a.off

\* every write request started so far, pending or complete
Started == file \cup UNION {req[r] : r \in Ranks}

\* C14: the value block of rank r is bytes [24 + r*nx*ny*8, 24 + (r+1)*nx*ny*8); the header
\* written by rank 0 is within bytes [0, 24); no two writes overlap; the file size is
\* 24 + K*nx*ny*8, which the blocks cover once all are written; and a process that has closed
\* the file has no write pending: all the writes it started are complete
C14_OutputLayout ==
  /\ \A q \in Started :
       /\ q.id = 0 => /\ q.off = 24 + q.rank * nx * ny * 8
                      /\ q.off + q.bytes = 24 + (q.rank + 1) * nx * ny * 8
       /\ q.id # 0 => q.rank = 0 /\ q.off >= 0 /\ q.off + q.bytes <= 24
       /\ q.off + q.bytes <= file_size(P(q.rank))
  /\ \A a, b \in Started : (a.rank # b.rank \/ a.id # b.id) => DisjointBytes(a, b)
  /\ \A r \in Ranks :
       /\ pc[r] \in AfterLoop => file_size(P(r)) = 24 + nranks * nx * ny * 8
       /\ closed[r] => /\ req[r] = {}
                       /\ {q.id : q \in {w \in file : w.rank = r}} =
                            (IF r = 0 THEN {0, 1, 2} ELSE {0})
  /\ (\A r \in Ranks : closed[r]) => {q.rank : q \in {w \in file : w.id = 0}} = Ranks

\* three processes have written and closed the file
C14_Witness == nranks = 3 /\ \A r \in Ranks : closed[r]


\* the cells of the rectangle [x_start, x_end) x [y_start, y_end)
Rectangle(g) == (g.x_start .. g.x_end - 1) \X (g.y_start .. g.y_end - 1)

\* C15: for a region with dx >= 1 and dy >= 1 the map from the flat index i in [0, dx*dy) to
\* (x_start + i / dy, y_start + i mod dy) is one-to-one and onto the region's cells, so a
\* region evaluation computes every cell of the region exactly once
C15_SplitBijective ==
  (kMode = "region" /\ kGrid.x_end - kGrid.x_start >= 1 /\ kGrid.y_end - kGrid.y_start >= 1) =>
    LET n == (kGrid.x_end - kGrid.x_start) * (kGrid.y_end - kGrid.y_start)
    IN /\ DOMAIN kState = 0 .. n - 1
       /\ \A i \in 0 .. n - 1 : split(i, kGrid) \in Rectangle(kGrid)
       /\ \A i, j \in 0 .. n - 1 : split(i, kGrid) = split(j, kGrid) => i = j
       /\ \A c \in Rectangle(kGrid) : \E i \in 0 .. n - 1 : split(i, kGrid) = c
       /\ \A c \in Rectangle(kGrid) :
            LET computed == {i \in DOMAIN kState : kState[i] = "done" /\ split(i, kGrid) = c}
            IN /\ Cardinality(computed) <= 1
               /\ AllDone => Cardinality(computed) = 1

\* a region of two rows and two columns has been evaluated to the end
C15_Witness ==
  /\ kMode = "region"
  /\ kGrid.x_end - kGrid.x_start = 2
  /\ kGrid.y_end - kGrid.y_start = 2
  /\ AllDone


\* the operations of one pass of the loop body
PassOperations == {"prev_eval", "next_eval", "internal", "reduce", "swap"}

\* the pass of the loop body process r has just completed held each operation exactly once
OnePass(r) ==
  \A s \in PassOperations : Cardinality({k \in 1 .. Len(log[r]) : log[r][k] = s}) = 1

\* C16: run termination, as a property of every finite run.  As long as some process has not
\* finished the job can take a step (no run ends with a process short of completion or
\* blocked forever); a completed pass of the loop body holds exactly one prev_boundary,
\* next_boundary, interior evaluation, reduction and swap; and a process that has left the
\* time loop has executed exactly ni iterations
C16_RunTermination ==
  /\ \A r \in Ranks : (pc[r] = "loop" /\ it[r] > 0) => OnePass(r)
  /\ \A r \in Ranks : pc[r] \in AfterLoop => (it[r] = ni /\ Len(hist[r]) = ni)
  /\ (\A r \in Ranks : pc[r] = "done") \/ ENABLED Next


\* the cells whose value differs between the buffers a and b
Changed(a, b) == {<<i \div ny, i % ny>> : i \in {j \in DOMAIN a : a[j] # b[j]}}

\* the ghost cells a stencil call at (x, y) of the process of rank r may write
GhostCells(x, y, r) ==
  {<<x, 0>>, <<x, ny - 1>>}
  \cup (IF r = 0 THEN {<<0, y>>} ELSE {})
  \cup (IF r = nranks - 1 THEN {<<nx + 1, y>>} ELSE {})

\* C17: a stencil call at (x, y), 1 <= x <= nx, 1 <= y <= ny-2, changes in the next buffer
\* only cell (x, y) and in the current buffer only ghost cells: (x, 0), (x, ny-1), (0, y) on
\* rank 0, (nx+1, y) on the last rank.  It changes no cell of a halo row that holds received
\* data (row 0 on ranks > 0, row nx+1 on ranks < nranks-1) and no interior cell of the
\* current buffer
C17_StencilFrame ==
  kMode = "stencil" =>
    \A k \in 1 .. Len(kSnap) - 1 :
      LET x == kCell[1]
          y == kCell[2]
          old == Changed(kSnap[k].u_old, kSnap[k + 1].u_old)
      IN /\ Changed(kSnap[k].u_new, kSnap[k + 1].u_new) \subseteq {<<x, y>>}
         /\ old \subseteq GhostCells(x, y, kRank)
         /\ kRank > 0 => \A c \in old : c[1] # 0
         /\ kRank < nranks - 1 => \A c \in old : c[1] # nx + 1
         /\ old \cap ((1 .. nx) \X (1 .. ny - 2)) = {}

\* a process that has a neighbour on both sides has called stencil at a corner cell next to
\* halo row 0, and the call has changed both buffers
C17_Witness ==
  /\ kMode = "stencil"
  /\ Len(kSnap) >= 2
  /\ kRank > 0 /\ kRank < nranks - 1
  /\ kCell = <<1, 1>>
  /\ kSnap[1].u_old[0 * ny + 1] # 0
  /\ Changed(kSnap[1].u_old, kSnap[2].u_old) # {}
  /\ Changed(kSnap[1].u_new, kSnap[2].u_new) # {}


\* C18: whatever the two buffers held, after initialize(u_new, u_old, n) every cell of u_new
\* and every cell of u_old is 0
C18_InitializeZeroesBoth ==
  (kMode = "initialize" /\ Len(kSnap) = 2) =>
    /\ \A i \in 0 .. AllocSize(P(kRank)) - 1 : kNew[i] = 0
    /\ \A i \in 0 .. AllocSize(P(kRank)) - 1 : kOld[i] = 0


\* the owned non-edge cells of a slab
OwnedCells == (1 .. nx) \X (1 .. ny - 2)

\* the region evaluations of the current iteration of process r that computed cell c
EvaluationsOf(r, c) ==
  {k \in 1 .. Len(log[r]) :
     /\ log[r][k] \in {"prev_eval", "next_eval", "internal"}
     /\ c \in gridCells(GridAt(r, log[r][k]))}

\* the sum of the squares of the cells of S in the next buffer of process r
RECURSIVE EnergyOf(_, _)
EnergyOf(r, S) ==
  IF S = {} THEN 0
  ELSE LET c == CHOOSE x \in S : TRUE
           v == buf[r][u_new[r]][c[1] * ny + c[2]]
       IN v * v + EnergyOf(r, S \ {c})

\* C19: the regions of prev_boundary (row nx), next_boundary (row 1) and internal (rows
\* 2..nx-1), over columns 1..ny-2, are pairwise disjoint and their union is rows 1..nx by
\* columns 1..ny-2; so in an iteration whose three regions are evaluated every owned non-edge
\* cell is computed exactly once, and the local energy is the sum of one term per such cell
C19_RegionCoverage ==
  \A r \in Ranks :
    LET prev == gridCells(prevBoundaryGrid(P(r)))
        next == gridCells(nextBoundaryGrid(P(r)))
        inner == gridCells(internalGrid(P(r)))
    IN /\ prev = {nx} \X (1 .. ny - 2)
       /\ next = {1} \X (1 .. ny - 2)
       /\ inner = (2 .. nx - 1) \X (1 .. ny - 2)
       /\ prev \cap next = {} /\ prev \cap inner = {} /\ next \cap inner = {}
       /\ prev \cup next \cup inner = OwnedCells
       /\ \A c \in OwnedCells : Cardinality(EvaluationsOf(r, c)) <= 1
       /\ pc[r] \in {"reduce", "swap"} =>
            \A c \in OwnedCells : Cardinality(EvaluationsOf(r, c)) = 1
       /\ pc[r] = "reduce" => energy[r] = EnergyOf(r, OwnedCells)

\* a process with a nonempty interior region has evaluated its three regions in its third
\* iteration, its interior row holding heat
C19_Witness ==
  /\ nranks = 3 /\ nx = 3
  /\ pc[0] = "reduce" /\ it[0] = 2
  /\ EnergyOf(0, {2} \X (1 .. ny - 2)) > 0


\* C20: in every state the iteration indices of adjacent ranks differ by at most 1, and the
\* k-th row a process has received from a neighbour is the k-th row that neighbour sent to
\* it, sent in the neighbour's iteration k-1 and received in the receiver's iteration k-1;
\* this with buffered and with synchronous sends
C20_BoundedSkew ==
  /\ \A r \in Ranks :
       r + 1 \in Ranks => (it[r] - it[r + 1] <= 1 /\ it[r + 1] - it[r] <= 1)
  /\ \A c \in Neighbours :
       LET put == SentTo(sent[c[1]], c[2])
           got == RecvdFrom(recvd[c[2]], c[1])
       IN /\ Len(got) <= Len(put)
          /\ \A k \in 1 .. Len(got) :
               /\ got[k].tag = put[k].tag
               /\ got[k].src = put[k].src
               /\ got[k].it = put[k].it
               /\ put[k].it = k - 1
               /\ got[k].at = k - 1

\* with synchronous sends the middle one of three processes is one iteration behind both its
\* neighbours, having received two rows from each
C20_Witness ==
  /\ syncSend /\ nranks = 3
  /\ it[0] = 2 /\ it[1] = 1 /\ it[2] = 2
  /\ Len(RecvdFrom(recvd[1], 0)) = 2
  /\ Len(RecvdFrom(recvd[1], 2)) = 2

====
